---- MODULE Spec2Model ----
(***************************************************************************)
(* Model of the prerecordloop element (gstprerecordloop.c): the GOP-aware  *)
(* queue, its time accounting, the eviction of whole GOPs and the          *)
(* BUFFERING / PASS_THROUGH state machine driven by pad events.            *)
(*                                                                         *)
(* Time is counted in whole seconds.  Every buffer and every event has a   *)
(* unique handle id.  The element's fields are the record `loop'; the      *)
(* functions of the source are operators from records to records.          *)
(***************************************************************************)
EXTENDS Integers, Sequences, FiniteSets, TLC

(***************************************************************************)
(* Bounds of the exploration.                                              *)
(***************************************************************************)
PruneOps == 6
PruneFrames == 5
PruneEvents == 2
PruneResets == 1
FlushOps == 6
FlushFrames == 3
FlushEvents == 1
FlushTriggers == 2
FlushRearm == 1
EosOps == 5
EosFrames == 3
EosEvents == 1
EosTriggers == 1
EosCount == 1
EosFlushSeq == 1
EosDeact == 1
OwnOps == 5
OwnFrames == 3
OwnEach == 1
ReOps == 4
ReFrames == 2
ReEach == 1
SegOps == 5
SegFrames == 2
SegEvents == 2
SegEach == 1
MaxRunningTime == 2

(***************************************************************************)
(* Values of the source.                                                   *)
(***************************************************************************)
GST_CLOCK_TIME_NONE == -1
GST_CLOCK_STIME_NONE == -1000
GOP_FLOOR == 2

BUFFERING == "BUFFERING"
PASS_THROUGH == "PASS_THROUGH"
AUTO == "AUTO"
ALWAYS == "ALWAYS"
NEVER == "NEVER"
FLOW_OK == "OK"
FLOW_FLUSHING == "FLUSHING"
FLOW_EOS == "EOS"

Threads == {"stream", "app"}
NoThread == "none"

(* Inputs the environment chooses from.  The max-time values are what the  *)
(* application sets, in seconds: the negative one exercises the setter's   *)
(* clamp to 0 (0 itself is set under the other two specifications).        *)
PruneMaxTimes == {-1, 2}
FlushMaxTimes == {0, 2}
EosMaxTimes == {0}
OwnMaxTimes == {2}
ReMaxTimes == {0}
SegMaxTimes == {0}
RunningTimes == {GST_CLOCK_STIME_NONE} \cup (-1..MaxRunningTime)
Policies == {AUTO, ALWAYS, NEVER}
FrameDurs == {1}
GapDurs == {1, 2}
TsValid == BOOLEAN

(***************************************************************************)
(* Segments and running time.                                              *)
(***************************************************************************)
gst_segment_init == [start |-> 0, base |-> 0, position |-> 0]

GST_CLOCK_TIME_IS_VALID(t) == t # GST_CLOCK_TIME_NONE
GST_CLOCK_STIME_IS_VALID(t) == t # GST_CLOCK_STIME_NONE

segment_to_running_time(segment, val) ==
  IF GST_CLOCK_TIME_IS_VALID(val)
  THEN val - segment.start + segment.base
  ELSE GST_CLOCK_STIME_NONE

(* A faulty level that takes the difference without comparing the two    *)
(* times first: used to test the sensitivity of LevelTimeCases.            *)
LevelTimeUnclamped(sink_time, src_time, sink_start_time) ==
  IF GST_CLOCK_STIME_IS_VALID(sink_time)
  THEN IF ~GST_CLOCK_STIME_IS_VALID(src_time) /\ GST_CLOCK_STIME_IS_VALID(sink_start_time)
       THEN sink_time - sink_start_time
       ELSE IF GST_CLOCK_STIME_IS_VALID(src_time) THEN sink_time - src_time ELSE 0
  ELSE 0

level_time(sink_time, src_time, sink_start_time) ==
  IF GST_CLOCK_STIME_IS_VALID(sink_time)
  THEN IF /\ ~GST_CLOCK_STIME_IS_VALID(src_time)
          /\ GST_CLOCK_STIME_IS_VALID(sink_start_time)
          /\ sink_time >= sink_start_time
       THEN sink_time - sink_start_time
       ELSE IF GST_CLOCK_STIME_IS_VALID(src_time) /\ sink_time >= src_time
            THEN sink_time - src_time
            ELSE 0
  ELSE 0

SetTimes(l, sinktime, srctime) ==
  [l EXCEPT !.sinktime = sinktime, !.sink_tainted = FALSE,
            !.srctime = srctime, !.src_tainted = FALSE,
            !.cur_level.time = level_time(sinktime, srctime, l.sink_start_time)]

update_time_level(l) ==
  SetTimes(l,
           IF l.sink_tainted
           THEN segment_to_running_time(l.sink_segment, l.sink_segment.position)
           ELSE l.sinktime,
           IF l.src_tainted
           THEN segment_to_running_time(l.src_segment, l.src_segment.position)
           ELSE l.srctime)

(* An event's segment; a non-TIME segment is normalised to start 0. *)
EventSegment(event) ==
  IF event.time_format
  THEN [start |-> event.start, base |-> event.base, position |-> event.start]
  ELSE [start |-> 0, base |-> event.base, position |-> event.start]

locked_apply_segment(l, event, is_sink) ==
  IF is_sink
  THEN [l EXCEPT !.sink_segment = EventSegment(event), !.sink_tainted = FALSE]
  ELSE [l EXCEPT !.src_segment = EventSegment(event), !.src_tainted = FALSE]

(* The position update shared by buffers and gap events: the first valid   *)
(* sink timestamp becomes the start time, the side's position advances and *)
(* is marked tainted, and the time level is recomputed.                    *)
SetStartTime(l, timestamp, is_sink) ==
  IF is_sink /\ ~GST_CLOCK_STIME_IS_VALID(l.sink_start_time)
  THEN [l EXCEPT !.sink_start_time = segment_to_running_time(l.sink_segment, timestamp)]
  ELSE l

SetPosition(l, pos, is_sink) ==
  IF is_sink
  THEN [l EXCEPT !.sink_segment.position = pos, !.sink_tainted = TRUE]
  ELSE [l EXCEPT !.src_segment.position = pos, !.src_tainted = TRUE]

ApplyPosition(l, timestamp, duration, is_sink) ==
  update_time_level(
    SetPosition(SetStartTime(l, timestamp, is_sink),
                IF GST_CLOCK_TIME_IS_VALID(duration) THEN timestamp + duration
                                                     ELSE timestamp,
                is_sink))

(* A faulty gap handler that leaves the timeline alone: used to test the  *)
(* sensitivity of GapAdvancesBufferedTime.                                 *)
GapIgnored(l, event, is_sink) == l

locked_apply_gap(l, event, is_sink) ==
  IF ~GST_CLOCK_TIME_IS_VALID(event.ts) THEN l
  ELSE ApplyPosition(l, event.ts, event.dur, is_sink)

locked_apply_buffer(l, buffer, is_sink) ==
  IF buffer.ts = GST_CLOCK_TIME_NONE THEN l
  ELSE ApplyPosition(l, buffer.ts, buffer.dur, is_sink)

clear_level == [buffers |-> 0, bytes |-> 0, time |-> 0]

(***************************************************************************)
(* Queue items.  A buffer carries its keyframe flag, GOP id and size; a    *)
(* SEGMENT or GAP event carries no size and its gop_id is never read.      *)
(***************************************************************************)
MkBuffer(id, key, ts, dur) ==
  [kind |-> "buffer", id |-> id, is_keyframe |-> key, gop_id |-> 0, size |-> 1,
   ts |-> ts, dur |-> dur, start |-> 0, base |-> 0, time_format |-> TRUE]

MkSegment(id, start, base, fmt) ==
  [kind |-> "segment", id |-> id, is_keyframe |-> FALSE, gop_id |-> 0, size |-> 0,
   ts |-> GST_CLOCK_TIME_NONE, dur |-> GST_CLOCK_TIME_NONE,
   start |-> start, base |-> base, time_format |-> fmt]

MkGap(id, ts, dur) ==
  [kind |-> "gap", id |-> id, is_keyframe |-> FALSE, gop_id |-> 0, size |-> 0,
   ts |-> ts, dur |-> dur, start |-> 0, base |-> 0, time_format |-> TRUE]

GST_IS_BUFFER(item) == item.kind = "buffer"
GST_IS_EVENT(item) == item.kind \in {"segment", "gap"}

PREREC_UNREF(l, item) == [l EXCEPT !.unrefd = Append(@, item.id)]

(* A faulty fill test that takes max-time 0 as a limit: used to test the   *)
(* sensitivity of NoEvictionWhenUnlimited.                                 *)
FilledIgnoresUnlimited(l) == l.cur_level.time >= l.max_time

gst_loop_is_filled(l) == l.max_time > 0 /\ l.cur_level.time >= l.max_time

gst_loop_is_empty(l) == l.cur_level.time = 0 \/ l.cur_level.buffers = 0

(* gst_prerec_locked_dequeue: pops the head, then updates the level and    *)
(* the src side of the timeline according to the kind of the item.         *)
ZeroTimeIfNoBuffers(l) ==
  IF l.cur_level.buffers = 0 THEN [l EXCEPT !.cur_level.time = 0] ELSE l

DequeueItem(l, item) ==
  IF GST_IS_BUFFER(item)
  THEN ZeroTimeIfNoBuffers(
         locked_apply_buffer([l EXCEPT !.cur_level.buffers = @ - 1,
                                       !.cur_level.bytes = @ - item.size],
                             item, FALSE))
  ELSE IF item.kind = "segment"
       THEN IF ~l.newseg_applied_to_src
            THEN locked_apply_segment(l, item, FALSE)
            ELSE [l EXCEPT !.newseg_applied_to_src = FALSE]
       ELSE locked_apply_gap(l, item, FALSE)

gst_prerec_locked_dequeue(l) ==
  IF l.queue = << >> THEN l
  ELSE DequeueItem([l EXCEPT !.queue = Tail(@)], Head(l.queue))

ResetTimeline(l) ==
  [l EXCEPT !.sink_segment = gst_segment_init,
            !.src_segment = gst_segment_init,
            !.sinktime = GST_CLOCK_STIME_NONE,
            !.srctime = GST_CLOCK_STIME_NONE,
            !.sink_start_time = GST_CLOCK_STIME_NONE,
            !.sink_tainted = FALSE, !.src_tainted = FALSE]

(* A faulty flush that empties the queue without releasing the items:    *)
(* used to test the sensitivity of HandlesDisposedOnce.                    *)
FlushLeaksItems(l, full) ==
  IF full
  THEN ResetTimeline([l EXCEPT !.queue = << >>, !.cur_level = clear_level])
  ELSE [l EXCEPT !.queue = << >>, !.cur_level = clear_level]

(* A faulty flush that resets the timeline whatever its argument: used to *)
(* test the sensitivity of PartialClearKeepsTimeline.                      *)
FlushAlwaysFull(l, full) ==
  ResetTimeline([l EXCEPT !.unrefd = @ \o [i \in 1..Len(l.queue) |-> l.queue[i].id],
                          !.queue = << >>, !.cur_level = clear_level])

gst_prerec_locked_flush(l, full) ==
  IF full
  THEN ResetTimeline([l EXCEPT !.unrefd = @ \o [i \in 1..Len(l.queue) |-> l.queue[i].id],
                               !.queue = << >>, !.cur_level = clear_level])
  ELSE [l EXCEPT !.unrefd = @ \o [i \in 1..Len(l.queue) |-> l.queue[i].id],
                 !.queue = << >>, !.cur_level = clear_level]

EnqueueWithGop(l, buffer, cur) ==
  [locked_apply_buffer(
     [l EXCEPT !.current_gop_id = cur,
               !.last_gop_id = IF Len(l.queue) = 0 \/ l.cur_level.buffers = 0
                               THEN cur ELSE @,
               !.cur_level.buffers = @ + 1,
               !.cur_level.bytes = @ + buffer.size],
     buffer, TRUE)
   EXCEPT !.queue = Append(@, [buffer EXCEPT !.gop_id = cur])]

(* A faulty enqueue that skips delta frames arriving before any keyframe:  *)
(* used to test the sensitivity of FrameQueuedOrForwarded.                 *)
EnqueueSkipsLeadingDelta(l, buffer) ==
  IF ~buffer.is_keyframe /\ l.cur_level.buffers = 0 THEN l
  ELSE EnqueueWithGop(l, buffer,
                      IF buffer.is_keyframe THEN l.current_gop_id + 1
                                            ELSE l.current_gop_id)

gst_prerec_locked_enqueue_buffer(l, buffer) ==
  EnqueueWithGop(l, buffer,
                 IF buffer.is_keyframe THEN l.current_gop_id + 1
                                       ELSE l.current_gop_id)

(* The fast path: a SEGMENT enqueued into an empty queue is applied to the *)
(* src side at once.                                                       *)
SegmentFastPath(l, event) ==
  IF l.queue = << >>
  THEN [locked_apply_segment(l, event, FALSE) EXCEPT !.newseg_applied_to_src = TRUE]
  ELSE l

(* A faulty enqueue, at the head of the queue: used to test the            *)
(* sensitivity of TriggerDrainsInOrder.                                    *)
PushHead(l, item) == [l EXCEPT !.queue = <<item>> \o @]

PushTail(l, item) == [l EXCEPT !.queue = Append(@, item)]

gst_prerec_locked_enqueue_event(l, event) ==
  PushTail(IF event.kind = "segment"
           THEN SegmentFastPath(locked_apply_segment(l, event, TRUE), event)
           ELSE locked_apply_gap(l, event, TRUE),
           event)

drop_last_item(l) ==
  IF l.queue = << >> THEN l
  ELSE PREREC_UNREF(gst_prerec_locked_dequeue(l), Head(l.queue))

(***************************************************************************)
(* gst_prerec_locked_drop.  d = [l, events_dropped, buffers_dropped,       *)
(* at_first].  After a leading event is dropped the code tests             *)
(* GST_IS_BUFFER on the handle it has just released: when that was the     *)
(* last reference the test reads freed memory, and `stale' is the set of   *)
(* event ids for which that read answers "buffer".  The head slot it then  *)
(* reads is the popped event's, whose is_keyframe is FALSE, so the next    *)
(* item is removed and counted as a buffer.                                *)
(***************************************************************************)
DropCounted(d, as_event) ==
  [d EXCEPT !.l = drop_last_item(@),
            !.events_dropped = IF as_event THEN @ + 1 ELSE @,
            !.buffers_dropped = IF as_event THEN @ ELSE @ + 1]

StaleTypeRead(d, qitem, stale) ==
  IF qitem.id \in stale THEN DropCounted(d, FALSE) ELSE d

SeekStep(d, qitem, stale) ==
  IF GST_IS_EVENT(qitem)
  THEN StaleTypeRead(DropCounted(d, TRUE), qitem, stale)
  ELSE IF ~qitem.is_keyframe \/ qitem.gop_id # d.l.last_gop_id
       THEN DropCounted(d, FALSE)
       ELSE [d EXCEPT !.at_first = TRUE]

RECURSIVE SeekPhase(_, _)
SeekPhase(d, stale) ==
  IF d.at_first \/ d.l.queue = << >> THEN d
  ELSE SeekPhase(SeekStep(d, Head(d.l.queue), stale), stale)

(* A faulty loop condition, stopping at a queued event: used to test the   *)
(* sensitivity of HeadIsKeyframe.                                          *)
EvictStopsAtEvent(d) ==
  /\ d.l.queue # << >>
  /\ GST_IS_BUFFER(Head(d.l.queue))
  /\ Head(d.l.queue).gop_id = d.l.last_gop_id

EvictContinues(d) ==
  /\ d.l.queue # << >>
  /\ \/ GST_IS_EVENT(Head(d.l.queue))
     \/ Head(d.l.queue).gop_id = d.l.last_gop_id

(* A faulty evict phase, dropping a single item: used to test the          *)
(* sensitivity of NoPartialGop.                                            *)
EvictOneItem(d) ==
  IF EvictContinues(d) THEN DropCounted(d, GST_IS_EVENT(Head(d.l.queue))) ELSE d

(* A faulty evict phase that leaves last_gop_id at the evicted GOP: used   *)
(* to test the sensitivity of GopAccounting.                               *)
RECURSIVE EvictKeepsOldestId(_)
EvictKeepsOldestId(d) ==
  IF EvictContinues(d)
  THEN EvictKeepsOldestId(DropCounted(d, GST_IS_EVENT(Head(d.l.queue))))
  ELSE d

RECURSIVE EvictPhase(_)
EvictPhase(d) ==
  IF EvictContinues(d)
  THEN EvictPhase(DropCounted(d, GST_IS_EVENT(Head(d.l.queue))))
  ELSE IF d.l.queue = << >> THEN d
       ELSE [d EXCEPT !.l.last_gop_id = Head(d.l.queue).gop_id]

DropStats(d) ==
  [d.l EXCEPT !.stats.drops_events = @ + d.events_dropped,
              !.stats.drops_buffers = @ + d.buffers_dropped,
              !.stats.drops_gops = @ + 1,
              !.stats.queued_buffers_cur = d.l.cur_level.buffers,
              !.stats.queued_gops_cur =
                 IF d.l.current_gop_id >= d.l.last_gop_id
                 THEN d.l.current_gop_id - d.l.last_gop_id + 1
                 ELSE @]

DropAfterSeek(d) ==
  IF gst_loop_is_empty(d.l) THEN d.l ELSE DropStats(EvictPhase(d))

gst_prerec_locked_drop(l, stale) ==
  DropAfterSeek(SeekPhase([l |-> l, events_dropped |-> 0, buffers_dropped |-> 0,
                           at_first |-> FALSE], stale))

gst_prerec_queued_gops(l) ==
  IF l.cur_level.buffers = 0 THEN 0
  ELSE IF l.current_gop_id >= l.last_gop_id
       THEN l.current_gop_id - l.last_gop_id + 1
       ELSE 0

(* A faulty prune test that ignores the GOP floor: used to test the        *)
(* sensitivity of NoEvictionAtFloor.                                       *)
ShouldPruneWhenFilled(l) == gst_loop_is_filled(l)

gst_prerec_should_prune(l) ==
  IF ~gst_loop_is_filled(l) THEN FALSE
  ELSE gst_prerec_queued_gops(l) > GOP_FLOOR

(* The prune loop of the chain function.  p = [l, calls, enq]; calls logs  *)
(* the element before and after each gst_prerec_locked_drop call, enq is   *)
(* the element as the enqueue left it.                                     *)
(* A faulty loop exit that leaves after the first drop, an `if' in place   *)
(* of the `while': used to test the sensitivity of PruneSettles.           *)
PruneBreaksAtOnce(before, after) == TRUE

PruneBreaks(before, after) == after <= GOP_FLOOR \/ after >= before

RECURSIVE PruneLoop(_, _)
PruneCall(p, l1, stale) ==
  IF PruneBreaks(gst_prerec_queued_gops(p.l), gst_prerec_queued_gops(l1))
  THEN [p EXCEPT !.l = l1, !.calls = Append(@, [pre |-> p.l, post |-> l1])]
  ELSE PruneLoop([p EXCEPT !.l = l1, !.calls = Append(@, [pre |-> p.l, post |-> l1])],
                 stale)

PruneLoop(p, stale) ==
  IF ~gst_prerec_should_prune(p.l) THEN p
  ELSE PruneCall(p, gst_prerec_locked_drop(p.l, stale), stale)

RefreshQueuedStats(p) ==
  [p EXCEPT !.l.stats.queued_buffers_cur = p.l.cur_level.buffers,
            !.l.stats.queued_gops_cur = gst_prerec_queued_gops(p.l)]

StartPrune(l) == [l |-> l, calls |-> << >>, enq |-> l]

ChainBuffering(l, buffer, stale) ==
  RefreshQueuedStats(PruneLoop(StartPrune(gst_prerec_locked_enqueue_buffer(l, buffer)),
                               stale))

(***************************************************************************)
(* State.                                                                  *)
(*   loop    the element's fields (GstPreRecordLoop), plus unrefd, the     *)
(*           handles the element has released, in order                    *)
(*   lock    the thread holding loop->lock, or NoThread                    *)
(*   pc      each thread's position inside a handler                       *)
(*   pend    what a thread inside a handler carries on its stack           *)
(*   out     every call into the src pad (gst_pad_push, push_event), in    *)
(*           order, with whether the caller held the lock                  *)
(*   clock   the upstream timestamp of the next buffer or gap              *)
(*   nextId  the next fresh handle                                         *)
(*   cnt     how many inputs of each kind have been delivered              *)
(*   lim     how many of each kind the exploration delivers at most        *)
(*   ev      the last completed operation, with the state it started from  *)
(*   gh      history: GOP ids enqueued since the last reset, whether EOS   *)
(*           has been received                                             *)
(***************************************************************************)
VARIABLES loop, lock, pc, pend, out, clock, nextId, cnt, lim, ev, gh

vars == <<loop, lock, pc, pend, out, clock, nextId, cnt, lim, ev, gh>>

InitStats ==
  [drops_gops |-> 0, drops_buffers |-> 0, drops_events |-> 0,
   queued_gops_cur |-> 0, queued_buffers_cur |-> 0,
   flush_count |-> 0, rearm_count |-> 0]

(* gst_pre_record_loop_set_property, PROP_MAX_TIME: whole seconds, clamped *)
(* at 0.                                                                   *)
set_max_time(secs) == IF secs < 0 THEN 0 ELSE secs

gst_pre_record_loop_init(max_time, policy) ==
  [queue |-> << >>, cur_level |-> clear_level, max_time |-> max_time,
   sink_segment |-> gst_segment_init, src_segment |-> gst_segment_init,
   sinktime |-> GST_CLOCK_STIME_NONE, srctime |-> GST_CLOCK_STIME_NONE,
   sink_start_time |-> GST_CLOCK_STIME_NONE,
   sink_tainted |-> FALSE, src_tainted |-> FALSE,
   newseg_applied_to_src |-> FALSE,
   current_gop_id |-> 0, last_gop_id |-> 0,
   mode |-> BUFFERING, srcresult |-> FLOW_OK, eos |-> FALSE, unexpected |-> FALSE,
   flush_on_eos |-> policy, stats |-> InitStats, unrefd |-> << >>]

(* History kept beside the element: the GOP ids enqueued since the last   *)
(* reset, whether an EOS has been received, how many, the flush triggers   *)
(* in the order they took the lock, whether frames are being accepted      *)
(* (flush-start and deactivation end it, flush-stop and activation restore *)
(* it), the frames refused, the first handle issued after the last         *)
(* flush-start and after the last return to accepting, and the events that *)
(* arrived in PASS_THROUGH, and the number of rearms that found            *)
(* PASS_THROUGH, and the max-time value the application set, and the       *)
(* SEGMENT event last applied to the src side on enqueue (0: none).        *)
InitGh ==
  [gops |-> {}, eos_seen |-> FALSE, eos_no |-> 0, trig |-> << >>,
   accepting |-> TRUE, refused |-> {}, flush_mark |-> 0, accept_mark |-> 0,
   pt_events |-> {}, rearm_pt |-> 0, max_time_set |-> 0, fast_seg |-> 0]

NoPend == [op |-> "none"]

InitWith(limits, maxTimes, policies) ==
  /\ \E m \in maxTimes, p \in policies :
        /\ loop = gst_pre_record_loop_init(set_max_time(m), p)
        /\ gh = [InitGh EXCEPT !.max_time_set = m]
  /\ lim = limits
  /\ lock = NoThread
  /\ pc = [t \in Threads |-> "idle"]
  /\ pend = [t \in Threads |-> NoPend]
  /\ out = << >>
  /\ clock = 0
  /\ nextId = 1
  /\ cnt = [ops |-> 0, frames |-> 0, events |-> 0, triggers |-> 0, eos |-> 0,
            rearm |-> 0, flushseq |-> 0, deact |-> 0]
  /\ ev = [op |-> "init"]

(* A lock that excludes nobody: used to test the sensitivity of            *)
(* ConcurrentTriggersFlushOnce.                                            *)
MutexIgnored(holder) == TRUE

(* g_mutex_lock returns once no thread holds the element's lock. *)
MutexFree(holder) == holder = NoThread

(* The element with given running times on both sides and a given start  *)
(* time: the inputs of update_time_level.                                  *)
InitLevel ==
  /\ \E sink \in RunningTimes, src \in RunningTimes, start \in RunningTimes,
        sink_tainted \in BOOLEAN, src_tainted \in BOOLEAN :
        loop = [gst_pre_record_loop_init(0, AUTO)
                  EXCEPT !.sinktime = sink, !.srctime = src, !.sink_start_time = start,
                         !.sink_tainted = sink_tainted, !.src_tainted = src_tainted]
  /\ gh = InitGh
  /\ lim = [ops |-> 1, frames |-> 0, events |-> 0, triggers |-> 0, eos |-> 0,
            rearm |-> 0, flushseq |-> 0, deact |-> 0]
  /\ lock = NoThread
  /\ pc = [t \in Threads |-> "idle"]
  /\ pend = [t \in Threads |-> NoPend]
  /\ out = << >>
  /\ clock = 0
  /\ nextId = 1
  /\ cnt = [ops |-> 0, frames |-> 0, events |-> 0, triggers |-> 0, eos |-> 0,
            rearm |-> 0, flushseq |-> 0, deact |-> 0]
  /\ ev = [op |-> "init"]

(* One call of update_time_level under the lock. *)
UpdateTimeLevel ==
  /\ MutexFree(lock)
  /\ cnt.ops < lim.ops
  /\ cnt' = [cnt EXCEPT !.ops = @ + 1]
  /\ loop' = update_time_level(loop)
  /\ ev' = [op |-> "update_time_level", pre |-> loop, post |-> update_time_level(loop)]
  /\ UNCHANGED <<lock, pc, pend, out, clock, nextId, gh, lim>>

(* A call into the src pad by thread t. *)
Push(t, item, why) ==
  [id |-> item.id, kind |-> item.kind, why |-> why, by |-> t, locked |-> (lock = t)]

(* Ids of the events ahead of the first buffer of a queue. *)
RECURSIVE LeadingEventIds(_)
LeadingEventIds(q) ==
  IF q = << >> \/ GST_IS_BUFFER(Head(q)) THEN {}
  ELSE {Head(q).id} \cup LeadingEventIds(Tail(q))

GopIds(q) == {q[i].gop_id : i \in {j \in 1..Len(q) : GST_IS_BUFFER(q[j])}}

(***************************************************************************)
(* gst_pre_record_loop_chain, on the streaming thread.                     *)
(***************************************************************************)
ChainQueued(p, base) ==
  /\ loop' = p.l
  /\ ev' = [base EXCEPT !.calls = p.calls]
             @@ [ret |-> FLOW_OK, enq |-> p.enq, post |-> p.l, outlen |-> Len(out),
                 gops_seen |-> Cardinality(gh.gops \cup {p.enq.current_gop_id})]
  /\ gh' = [gh EXCEPT !.gops = @ \cup {p.enq.current_gop_id}]

Chain(key, tsv, dur, stale) ==
  /\ pc["stream"] = "idle"
  /\ MutexFree(lock)
  /\ cnt.ops < lim.ops /\ cnt.frames < lim.frames
  /\ LET buffer == MkBuffer(nextId, key, IF tsv THEN clock ELSE GST_CLOCK_TIME_NONE, dur)
         base == [op |-> "chain", id |-> nextId, key |-> key, pre |-> loop,
                  mode |-> loop.mode, accepting |-> gh.accepting,
                  mark |-> Len(out),
                  after_eos |-> gh.eos_seen, calls |-> << >>]
     IN IF loop.srcresult # FLOW_OK
        THEN /\ loop' = PREREC_UNREF(loop, buffer)
             /\ ev' = [base EXCEPT !.op = "chain_refused"]
                        @@ [ret |-> loop.srcresult, post |-> PREREC_UNREF(loop, buffer),
                            outlen |-> Len(out)]
             /\ gh' = [gh EXCEPT !.refused = @ \cup {nextId}]
             /\ UNCHANGED <<pc, pend>>
        ELSE IF loop.eos \/ loop.unexpected
        THEN /\ loop' = PREREC_UNREF(loop, buffer)
             /\ ev' = [base EXCEPT !.op = "chain_refused"]
                        @@ [ret |-> FLOW_EOS, post |-> PREREC_UNREF(loop, buffer),
                            outlen |-> Len(out)]
             /\ gh' = [gh EXCEPT !.refused = @ \cup {nextId}]
             /\ UNCHANGED <<pc, pend>>
        ELSE IF loop.mode = PASS_THROUGH
        THEN /\ pc' = [pc EXCEPT !["stream"] = "chain_push"]
             /\ pend' = [pend EXCEPT !["stream"] = [op |-> "chain", item |-> buffer, base |-> base]]
             /\ UNCHANGED <<loop, ev, gh>>
        ELSE /\ ChainQueued(ChainBuffering(loop, buffer, stale), base)
             /\ UNCHANGED <<pc, pend>>
  /\ clock' = clock + 1
  /\ nextId' = nextId + 1
  /\ cnt' = [cnt EXCEPT !.ops = @ + 1, !.frames = @ + 1]
  /\ UNCHANGED <<lock, out, lim>>

ChainPush ==
  /\ pc["stream"] = "chain_push"
  /\ out' = Append(out, Push("stream", pend["stream"].item, "pass"))
  /\ ev' = pend["stream"].base @@ [ret |-> FLOW_OK, post |-> loop,
                                   outlen |-> Len(out) + 1]
  /\ pc' = [pc EXCEPT !["stream"] = "idle"]
  /\ pend' = [pend EXCEPT !["stream"] = NoPend]
  /\ UNCHANGED <<loop, lock, clock, nextId, cnt, gh, lim>>

(***************************************************************************)
(* gst_pre_record_loop_sink_event, default case: a SEGMENT or GAP event is *)
(* queued while BUFFERING and then handed to gst_pad_event_default, which  *)
(* forwards it on the src pad.                                             *)
(***************************************************************************)
(* A faulty handler that queues the event in either mode: used to test the *)
(* sensitivity of EventsForwardedOnArrival.                                *)
QueueEventAnyMode(l, event) == gst_prerec_locked_enqueue_event(l, event)

QueueSerializedEvent(l, event) ==
  IF l.mode = BUFFERING THEN gst_prerec_locked_enqueue_event(l, event) ELSE l

SinkEventDefault(event) ==
  /\ pc["stream"] = "idle"
  /\ MutexFree(lock)
  /\ cnt.ops < lim.ops /\ cnt.events < lim.events
  /\ loop' = QueueSerializedEvent(loop, event)
  /\ pc' = [pc EXCEPT !["stream"] = "event_default"]
  /\ pend' = [pend EXCEPT !["stream"] =
               [op |-> "event", item |-> event,
                base |-> [op |-> "event", id |-> event.id, kind |-> event.kind,
                          pre |-> loop, mode |-> loop.mode,
                          post |-> QueueSerializedEvent(loop, event),
                          mark |-> Len(out)]]]
  /\ nextId' = nextId + 1
  /\ cnt' = [cnt EXCEPT !.ops = @ + 1, !.events = @ + 1]
  /\ gh' = IF loop.mode = PASS_THROUGH
           THEN [gh EXCEPT !.pt_events = @ \cup {event.id}]
           ELSE IF event.kind = "segment" /\ loop.queue = << >>
                THEN [gh EXCEPT !.fast_seg = event.id]
                ELSE gh
  /\ UNCHANGED <<lock, out, ev, lim>>

SegmentEvent(start, fmt) ==
  /\ SinkEventDefault(MkSegment(nextId, start, 0, fmt))
  /\ UNCHANGED clock

GapEvent(dur) ==
  /\ SinkEventDefault(MkGap(nextId, clock, dur))
  /\ clock' = clock + dur

EventDefault ==
  /\ pc["stream"] = "event_default"
  /\ out' = Append(out, Push("stream", pend["stream"].item, "default"))
  /\ ev' = pend["stream"].base @@ [outlen |-> Len(out) + 1]
  /\ pc' = [pc EXCEPT !["stream"] = "idle"]
  /\ pend' = [pend EXCEPT !["stream"] = NoPend]
  /\ UNCHANGED <<loop, lock, clock, nextId, cnt, gh, lim>>

(***************************************************************************)
(* GST_EVENT_EOS.  The queue is drained or discarded under the lock; the   *)
(* EOS event itself is pushed after the unlock.                            *)
(***************************************************************************)
(* A policy decision that never drains: used to test the sensitivity of   *)
(* EosPolicyTable.                                                         *)
NeverDrain(l) == FALSE

(* A policy decision that ignores the policy: used to test the sensitivity *)
(* of EosForwardedOnceAfterDrain.                                          *)
AlwaysDrain(l) == TRUE

ShouldDrain(l) ==
  l.flush_on_eos = ALWAYS \/ (l.flush_on_eos = AUTO /\ l.mode = PASS_THROUGH)

EosResetGops(l) ==
  [l EXCEPT !.current_gop_id = 0, !.last_gop_id = 0,
            !.stats.queued_gops_cur = 0, !.stats.queued_buffers_cur = 0]

EosDiscard(l) ==
  IF l.queue # << >> THEN EosResetGops(gst_prerec_locked_flush(l, TRUE)) ELSE l

EosEvent == [id |-> 0, kind |-> "eos"]

EosStart ==
  /\ pc["stream"] = "idle"
  /\ MutexFree(lock)
  /\ cnt.ops < lim.ops /\ cnt.eos < lim.eos
  /\ cnt' = [cnt EXCEPT !.ops = @ + 1, !.eos = @ + 1]
  /\ gh' = [gh EXCEPT !.eos_seen = TRUE, !.eos_no = @ + 1, !.gops = {}]
  /\ pend' = [pend EXCEPT !["stream"] =
               [op |-> "eos",
                base |-> [op |-> "eos", pre |-> loop, mode |-> loop.mode,
                          policy |-> loop.flush_on_eos, drain |-> ShouldDrain(loop),
                          mark |-> Len(out), no |-> gh.eos_no + 1]]]
  /\ IF ShouldDrain(loop)
     THEN /\ lock' = "stream"
          /\ pc' = [pc EXCEPT !["stream"] = "eos_drain"]
          /\ UNCHANGED loop
     ELSE /\ loop' = EosDiscard(loop)
          /\ pc' = [pc EXCEPT !["stream"] = "eos_forward"]
          /\ UNCHANGED lock
  /\ UNCHANGED <<out, clock, nextId, ev, lim>>

EosDrain ==
  /\ pc["stream"] = "eos_drain"
  /\ IF loop.queue # << >>
     THEN /\ loop' = gst_prerec_locked_dequeue(loop)
          /\ out' = Append(out, Push("stream", Head(loop.queue), "eos_drain"))
          /\ UNCHANGED <<lock, pc>>
     ELSE /\ loop' = EosResetGops(loop)
          /\ lock' = NoThread
          /\ pc' = [pc EXCEPT !["stream"] = "eos_forward"]
          /\ UNCHANGED out
  /\ UNCHANGED <<pend, clock, nextId, cnt, ev, gh, lim>>

EosForward ==
  /\ pc["stream"] = "eos_forward"
  /\ out' = Append(out, Push("stream", EosEvent, "forward"))
  /\ ev' = pend["stream"].base @@ [post |-> loop, outlen |-> Len(out) + 1]
  /\ pc' = [pc EXCEPT !["stream"] = "idle"]
  /\ pend' = [pend EXCEPT !["stream"] = NoPend]
  /\ UNCHANGED <<loop, lock, clock, nextId, cnt, gh, lim>>

(***************************************************************************)
(* GST_EVENT_CUSTOM_DOWNSTREAM carrying the flush trigger name, from       *)
(* either thread.  The whole drain runs with the lock held.                *)
(***************************************************************************)
TriggerRecv(t) ==
  /\ pc[t] = "idle"
  /\ cnt.ops < lim.ops /\ cnt.triggers < lim.triggers
  /\ cnt' = [cnt EXCEPT !.ops = @ + 1, !.triggers = @ + 1]
  /\ pc' = [pc EXCEPT ![t] = "trigger_lock"]
  /\ pend' = [pend EXCEPT ![t] = [op |-> "trigger_wait", holder |-> lock]]
  /\ UNCHANGED <<loop, lock, out, clock, nextId, ev, gh, lim>>

(* A faulty mode test that accepts every trigger: used to test the         *)
(* sensitivity of TriggerIgnoredInPassThrough.                             *)
TriggerAlwaysAccepted(l) == TRUE

TriggerAccepted(l) == l.mode = BUFFERING

TriggerStart(t) ==
  /\ pc[t] = "trigger_lock"
  /\ MutexFree(lock)
  /\ gh' = [gh EXCEPT !.trig = Append(@, [by |-> t, accepted |-> loop.mode = BUFFERING,
                                          rearms |-> loop.stats.rearm_count,
                                          waited_for |-> pend[t].holder])]
  /\ IF TriggerAccepted(loop)
     THEN /\ loop' = [loop EXCEPT !.stats.flush_count = @ + 1]
          /\ lock' = t
          /\ pc' = [pc EXCEPT ![t] = "trigger_drain"]
          /\ pend' = [pend EXCEPT ![t] =
                       [op |-> "trigger",
                        base |-> [op |-> "trigger", by |-> t, pre |-> loop,
                                  mark |-> Len(out),
                                  flush_mark |-> gh.flush_mark,
                                  accept_mark |-> gh.accept_mark]]]
          /\ UNCHANGED ev
     ELSE /\ ev' = [op |-> "trigger_ignored", by |-> t, pre |-> loop, post |-> loop,
                    mark |-> Len(out), outlen |-> Len(out)]
          /\ pc' = [pc EXCEPT ![t] = "idle"]
          /\ pend' = [pend EXCEPT ![t] = NoPend]
          /\ UNCHANGED <<loop, lock>>
  /\ UNCHANGED <<out, clock, nextId, cnt, lim>>

TriggerDrain(t) ==
  /\ pc[t] = "trigger_drain"
  /\ IF loop.queue # << >>
     THEN /\ loop' = gst_prerec_locked_dequeue(loop)
          /\ out' = Append(out, Push(t, Head(loop.queue), "trigger_drain"))
          /\ UNCHANGED <<lock, pc, pend, ev>>
     ELSE /\ loop' = [loop EXCEPT !.mode = PASS_THROUGH]
          /\ lock' = NoThread
          /\ pc' = [pc EXCEPT ![t] = "idle"]
          /\ ev' = pend[t].base @@ [post |-> [loop EXCEPT !.mode = PASS_THROUGH],
                                    outlen |-> Len(out)]
          /\ pend' = [pend EXCEPT ![t] = NoPend]
          /\ UNCHANGED out
  /\ UNCHANGED <<clock, nextId, cnt, gh, lim>>

(***************************************************************************)
(* gst_pre_record_loop_src_event: the prerecord-arm upstream event.        *)
(***************************************************************************)
(* A faulty rearm, switching the mode only: used to test the sensitivity   *)
(* of RearmResets.                                                         *)
RearmModeOnly(l) ==
  IF l.mode = PASS_THROUGH
  THEN [l EXCEPT !.stats.rearm_count = @ + 1, !.mode = BUFFERING]
  ELSE l

(* A faulty rearm that resets in either mode: used to test the sensitivity *)
(* of RearmIgnoredInBuffering.                                             *)
RearmAnyMode(l) ==
  [l EXCEPT !.stats.rearm_count = @ + 1,
            !.mode = BUFFERING,
            !.current_gop_id = 0, !.last_gop_id = 0,
            !.cur_level = clear_level,
            !.sink_segment = gst_segment_init,
            !.src_segment = gst_segment_init,
            !.sinktime = GST_CLOCK_STIME_NONE,
            !.srctime = GST_CLOCK_STIME_NONE,
            !.sink_start_time = GST_CLOCK_STIME_NONE,
            !.sink_tainted = FALSE, !.src_tainted = FALSE]

(* A faulty rearm that does not count itself: used to test the sensitivity *)
(* of CountersCountAccepted.                                               *)
RearmUncounted(l) ==
  IF l.mode = PASS_THROUGH
  THEN [l EXCEPT !.mode = BUFFERING,
                 !.current_gop_id = 0, !.last_gop_id = 0,
                 !.cur_level = clear_level,
                 !.sink_segment = gst_segment_init,
                 !.src_segment = gst_segment_init,
                 !.sinktime = GST_CLOCK_STIME_NONE,
                 !.srctime = GST_CLOCK_STIME_NONE,
                 !.sink_start_time = GST_CLOCK_STIME_NONE,
                 !.sink_tainted = FALSE, !.src_tainted = FALSE]
  ELSE l

RearmBody(l) ==
  IF l.mode = PASS_THROUGH
  THEN [l EXCEPT !.stats.rearm_count = @ + 1,
                 !.mode = BUFFERING,
                 !.current_gop_id = 0, !.last_gop_id = 0,
                 !.cur_level = clear_level,
                 !.sink_segment = gst_segment_init,
                 !.src_segment = gst_segment_init,
                 !.sinktime = GST_CLOCK_STIME_NONE,
                 !.srctime = GST_CLOCK_STIME_NONE,
                 !.sink_start_time = GST_CLOCK_STIME_NONE,
                 !.sink_tainted = FALSE, !.src_tainted = FALSE]
  ELSE l

Rearm ==
  /\ pc["app"] = "idle"
  /\ MutexFree(lock)
  /\ cnt.ops < lim.ops /\ cnt.rearm < lim.rearm
  /\ cnt' = [cnt EXCEPT !.ops = @ + 1, !.rearm = @ + 1]
  /\ loop' = RearmBody(loop)
  /\ ev' = [op |-> "rearm", pre |-> loop, mode |-> loop.mode, post |-> RearmBody(loop)]
  /\ gh' = IF loop.mode = PASS_THROUGH
           THEN [gh EXCEPT !.gops = {}, !.rearm_pt = @ + 1]
           ELSE gh
  /\ UNCHANGED <<lock, pc, pend, out, clock, nextId, lim>>

(***************************************************************************)
(* gst_pre_record_loop_src_event entered from downstream while a drain is  *)
(* pushing.  gst_pad_push and gst_pad_push_event call the downstream       *)
(* element on the pushing thread, and downstream may send an upstream      *)
(* event from inside that call; the handler then runs on the thread that   *)
(* holds loop->lock.  g_mutex_lock on a GMutex the caller already holds is *)
(* undefined: the futex and pthread implementations never return, an       *)
(* implementation that lets the owner through is the other outcome.        *)
(***************************************************************************)
SrcEventKinds == {"rearm", "reconfigure"}

RelockOutcomes == {"blocks", "returns"}

(* GST_EVENT_RECONFIGURE: srcresult is reset only from NOT_LINKED, which   *)
(* the element never stores.                                               *)
ReconfigureBody(l) == l

SrcEventBody(l, kind) == IF kind = "rearm" THEN RearmBody(l) ELSE ReconfigureBody(l)

DownstreamRaises(t, kind, outcome) ==
  /\ pc[t] \in {"trigger_drain", "eos_drain"}
  /\ lock = t
  /\ Len(out) > pend[t].base.mark
  /\ out[Len(out)].by = t /\ out[Len(out)].why \in {"trigger_drain", "eos_drain"}
  /\ cnt.ops < lim.ops /\ cnt.rearm < lim.rearm
  /\ cnt' = [cnt EXCEPT !.ops = @ + 1, !.rearm = @ + 1]
  /\ pc' = [pc EXCEPT ![t] = IF outcome = "blocks" THEN "src_event_blocked"
                                                   ELSE "src_event_locked"]
  /\ pend' = [pend EXCEPT ![t] = [op |-> "src_event", kind |-> kind,
                                  resume |-> pc[t], outer |-> pend[t]]]
  /\ UNCHANGED <<loop, lock, out, clock, nextId, ev, gh, lim>>

(* The handler's body and its unlock, then the return into the drain. *)
SrcEventReturn(t) ==
  /\ pc[t] = "src_event_locked"
  /\ loop' = SrcEventBody(loop, pend[t].kind)
  /\ lock' = NoThread
  /\ ev' = [op |-> "src_event", kind |-> pend[t].kind, by |-> t, pre |-> loop,
            mode |-> loop.mode, post |-> SrcEventBody(loop, pend[t].kind)]
  /\ gh' = IF pend[t].kind = "rearm" /\ loop.mode = PASS_THROUGH
           THEN [gh EXCEPT !.gops = {}, !.rearm_pt = @ + 1]
           ELSE gh
  /\ pc' = [pc EXCEPT ![t] = pend[t].resume]
  /\ pend' = [pend EXCEPT ![t] = pend[t].outer]
  /\ UNCHANGED <<out, clock, nextId, cnt, lim>>

(***************************************************************************)
(* FLUSH_START / FLUSH_STOP, and (de)activation of the src pad.            *)
(***************************************************************************)
(* A faulty flush-start that leaves the element accepting frames: used to   *)
(* test the sensitivity of FlushingRefuses.                                *)
FlushStartKeepsAccepting(l) ==
  [gst_prerec_locked_flush(l, TRUE) EXCEPT
     !.current_gop_id = 0, !.last_gop_id = 0,
     !.stats.queued_gops_cur = 0, !.stats.queued_buffers_cur = 0]

(* A faulty flush-start that keeps the queue: used to test the sensitivity  *)
(* of FlushStartDiscards.                                                  *)
FlushStartMarksOnly(l) == [l EXCEPT !.srcresult = FLOW_FLUSHING]

FlushStartBody(l) ==
  [gst_prerec_locked_flush(l, TRUE) EXCEPT
     !.current_gop_id = 0, !.last_gop_id = 0,
     !.stats.queued_gops_cur = 0, !.stats.queued_buffers_cur = 0,
     !.srcresult = FLOW_FLUSHING]

(* A faulty FLUSH_STOP that also goes back to BUFFERING: used to test the *)
(* sensitivity of ModeChangesOnlyByTriggerAndRearm.                        *)
FlushStopRearms(l, reset_time) == [l EXCEPT !.srcresult = FLOW_OK, !.mode = BUFFERING]

FlushStopBody(l, reset_time) ==
  LET l1 == [l EXCEPT !.srcresult = FLOW_OK]
  IN IF reset_time
     THEN [l1 EXCEPT !.sink_segment = gst_segment_init,
                     !.src_segment = gst_segment_init,
                     !.sinktime = GST_CLOCK_STIME_NONE,
                     !.srctime = GST_CLOCK_STIME_NONE,
                     !.sink_start_time = GST_CLOCK_STIME_NONE,
                     !.sink_tainted = FALSE, !.src_tainted = FALSE]
     ELSE l1

FlushStart ==
  /\ pc["app"] = "idle"
  /\ MutexFree(lock)
  /\ cnt.ops < lim.ops /\ cnt.flushseq < lim.flushseq
  /\ loop.srcresult = FLOW_OK
  /\ cnt' = [cnt EXCEPT !.ops = @ + 1, !.flushseq = @ + 1]
  /\ loop' = FlushStartBody(loop)
  /\ gh' = [gh EXCEPT !.gops = {}, !.accepting = FALSE, !.flush_mark = nextId]
  /\ pc' = [pc EXCEPT !["app"] = "flush_forward"]
  /\ pend' = [pend EXCEPT !["app"] =
               [op |-> "flush", item |-> [id |-> 0, kind |-> "flush_start"],
                base |-> [op |-> "flush_start", pre |-> loop,
                          post |-> FlushStartBody(loop), mark |-> Len(out)]]]
  /\ UNCHANGED <<lock, out, clock, nextId, ev, lim>>

FlushStop(reset_time) ==
  /\ pc["app"] = "idle"
  /\ MutexFree(lock)
  /\ loop.srcresult = FLOW_FLUSHING
  /\ loop' = FlushStopBody(loop, reset_time)
  /\ pc' = [pc EXCEPT !["app"] = "flush_forward"]
  /\ pend' = [pend EXCEPT !["app"] =
               [op |-> "flush", item |-> [id |-> 0, kind |-> "flush_stop"],
                base |-> [op |-> "flush_stop", pre |-> loop, reset_time |-> reset_time]]]
  /\ gh' = [gh EXCEPT !.eos_seen = FALSE, !.accepting = TRUE, !.accept_mark = nextId]
  /\ UNCHANGED <<lock, out, clock, nextId, cnt, ev, lim>>

FlushForward ==
  /\ pc["app"] = "flush_forward"
  /\ out' = Append(out, Push("app", pend["app"].item, "forward"))
  /\ ev' = pend["app"].base @@ [outlen |-> Len(out) + 1]
  /\ pc' = [pc EXCEPT !["app"] = "idle"]
  /\ pend' = [pend EXCEPT !["app"] = NoPend]
  /\ UNCHANGED <<loop, lock, clock, nextId, cnt, gh, lim>>

SrcActivateBody(l, active) ==
  IF active
  THEN [l EXCEPT !.srcresult = FLOW_OK, !.eos = FALSE]
  ELSE gst_prerec_locked_flush([l EXCEPT !.srcresult = FLOW_FLUSHING], FALSE)

SrcActivateMode(active) ==
  /\ pc["app"] = "idle"
  /\ MutexFree(lock)
  /\ IF active THEN loop.srcresult = FLOW_FLUSHING
               ELSE cnt.ops < lim.ops /\ cnt.deact < lim.deact
  /\ cnt' = IF active THEN cnt ELSE [cnt EXCEPT !.ops = @ + 1, !.deact = @ + 1]
  /\ loop' = SrcActivateBody(loop, active)
  /\ gh' = IF active
           THEN [gh EXCEPT !.eos_seen = FALSE, !.accepting = TRUE, !.accept_mark = nextId]
           ELSE [gh EXCEPT !.gops = {}, !.accepting = FALSE]
  /\ ev' = [op |-> "src_activate", active |-> active, pre |-> loop]
  /\ UNCHANGED <<lock, pc, pend, out, clock, nextId, lim>>

(***************************************************************************)
(* The specification.                                                      *)
(***************************************************************************)
SegStarts == {0, clock}

PruneLimits ==
  [ops |-> PruneOps, frames |-> PruneFrames, events |-> PruneEvents,
   triggers |-> 0, eos |-> 0, rearm |-> 0, flushseq |-> 0, deact |-> PruneResets]

FlushLimits ==
  [ops |-> FlushOps, frames |-> FlushFrames, events |-> FlushEvents,
   triggers |-> FlushTriggers, eos |-> 0, rearm |-> FlushRearm,
   flushseq |-> 0, deact |-> 0]

EosLimits ==
  [ops |-> EosOps, frames |-> EosFrames, events |-> EosEvents,
   triggers |-> EosTriggers, eos |-> EosCount, rearm |-> 0,
   flushseq |-> EosFlushSeq, deact |-> EosDeact]

ReLimits ==
  [ops |-> ReOps, frames |-> ReFrames, events |-> 0,
   triggers |-> ReEach, eos |-> ReEach, rearm |-> ReEach,
   flushseq |-> 0, deact |-> 0]

SegLimits ==
  [ops |-> SegOps, frames |-> SegFrames, events |-> SegEvents,
   triggers |-> SegEach, eos |-> 0, rearm |-> 0,
   flushseq |-> 0, deact |-> SegEach]

OwnLimits ==
  [ops |-> OwnOps, frames |-> OwnFrames, events |-> OwnEach,
   triggers |-> OwnEach, eos |-> OwnEach, rearm |-> OwnEach,
   flushseq |-> OwnEach, deact |-> OwnEach]

InitPrune == InitWith(PruneLimits, PruneMaxTimes, {AUTO})

InitFlush == InitWith(FlushLimits, FlushMaxTimes, {AUTO})

InitEos == InitWith(EosLimits, EosMaxTimes, Policies)

InitOwn == InitWith(OwnLimits, OwnMaxTimes, Policies)

InitRe == InitWith(ReLimits, ReMaxTimes, Policies)

InitSeg == InitWith(SegLimits, SegMaxTimes, {AUTO})

NextPrune ==
  \/ \E key \in BOOLEAN, tsv \in TsValid, dur \in FrameDurs,
        stale \in SUBSET LeadingEventIds(loop.queue) : Chain(key, tsv, dur, stale)
  \/ \E start \in SegStarts : SegmentEvent(start, TRUE)
  \/ \E dur \in GapDurs : GapEvent(dur)
  \/ EventDefault
  \/ \E a \in BOOLEAN : SrcActivateMode(a)

NextFlush ==
  \/ \E key \in BOOLEAN : Chain(key, TRUE, 1, {})
  \/ ChainPush
  \/ SegmentEvent(0, TRUE)
  \/ GapEvent(1)
  \/ EventDefault
  \/ \E t \in Threads : TriggerRecv(t)
  \/ \E t \in Threads : TriggerStart(t)
  \/ \E t \in Threads : TriggerDrain(t)
  \/ Rearm

NextEos ==
  \/ \E key \in BOOLEAN : Chain(key, TRUE, 1, {})
  \/ ChainPush
  \/ SegmentEvent(0, TRUE)
  \/ GapEvent(1)
  \/ EventDefault
  \/ EosStart
  \/ EosDrain
  \/ EosForward
  \/ TriggerRecv("stream")
  \/ TriggerStart("stream")
  \/ TriggerDrain("stream")
  \/ FlushStart
  \/ \E r \in BOOLEAN : FlushStop(r)
  \/ FlushForward
  \/ \E a \in BOOLEAN : SrcActivateMode(a)

(* Every operation that takes an item out of the queue, in one system:    *)
(* eviction, both drains, the EOS discard, both flushes and the rearm.     *)
NextOwn ==
  \/ \E key \in BOOLEAN, stale \in SUBSET LeadingEventIds(loop.queue) :
        Chain(key, TRUE, 1, stale)
  \/ ChainPush
  \/ SegmentEvent(0, TRUE)
  \/ GapEvent(1)
  \/ EventDefault
  \/ EosStart
  \/ EosDrain
  \/ EosForward
  \/ TriggerRecv("stream")
  \/ TriggerStart("stream")
  \/ TriggerDrain("stream")
  \/ Rearm
  \/ FlushStart
  \/ \E r \in BOOLEAN : FlushStop(r)
  \/ FlushForward
  \/ \E a \in BOOLEAN : SrcActivateMode(a)

(* The drains with a downstream that answers a push with an upstream      *)
(* event.                                                                  *)
NextRe ==
  \/ \E key \in BOOLEAN : Chain(key, TRUE, 1, {})
  \/ ChainPush
  \/ EosStart
  \/ EosDrain
  \/ EosForward
  \/ TriggerRecv("stream")
  \/ TriggerStart("stream")
  \/ TriggerDrain("stream")
  \/ Rearm
  \/ \E kind \in SrcEventKinds, outcome \in RelockOutcomes :
        DownstreamRaises("stream", kind, outcome)
  \/ SrcEventReturn("stream")

(* SEGMENT events against a deactivation of the src pad and a drain. *)
NextSeg ==
  \/ \E key \in BOOLEAN : Chain(key, TRUE, 1, {})
  \/ ChainPush
  \/ \E start \in SegStarts : SegmentEvent(start, TRUE)
  \/ EventDefault
  \/ TriggerRecv("stream")
  \/ TriggerStart("stream")
  \/ TriggerDrain("stream")
  \/ \E a \in BOOLEAN : SrcActivateMode(a)

SpecPrune == InitPrune /\ [][NextPrune]_vars

SpecFlush == InitFlush /\ [][NextFlush]_vars

SpecEos == InitEos /\ [][NextEos]_vars

SpecOwn == InitOwn /\ [][NextOwn]_vars

SpecRe == InitRe /\ [][NextRe]_vars

SpecSeg == InitSeg /\ [][NextSeg]_vars

NextLevel == UpdateTimeLevel

SpecLevel == InitLevel /\ [][NextLevel]_vars

(***************************************************************************)
(* Properties of the GOP pruner, checked under SpecPrune.                  *)
(***************************************************************************)
QueuedIds(q) == {q[i].id : i \in 1..Len(q)}

FramesOf(q, g) ==
  {q[i].id : i \in {j \in 1..Len(q) : GST_IS_BUFFER(q[j]) /\ q[j].gop_id = g}}

ChainQueuedDone == ev.op = "chain" /\ ev.mode = BUFFERING

(* C1: for frames arriving in any order while BUFFERING with max-time > 0, *)
(* once the buffered duration has reached the budget and the prune loop of *)
(* the arrival has finished, the queue holds at least two GOPs, or as many *)
(* GOPs as were enqueued since the last reset when those are fewer than    *)
(* two.                                                                    *)
TwoGopFloor ==
  (ChainQueuedDone /\ ev.pre.max_time > 0 /\ gst_loop_is_filled(ev.enq))
    => \/ gst_prerec_queued_gops(ev.post) >= GOP_FLOOR
       \/ /\ ev.gops_seen < GOP_FLOOR
          /\ gst_prerec_queued_gops(ev.post) = ev.gops_seen

(* Every GOP queued in pre is, in post, either whole or gone. *)
WholeGops(pre, post) ==
  \A g \in GopIds(pre) :
     \/ FramesOf(pre, g) \subseteq QueuedIds(post)
     \/ FramesOf(pre, g) \cap QueuedIds(post) = {}

(* C2: a gst_prerec_locked_drop call never removes part of a GOP: of every *)
(* GOP queued before the call, all frames are still queued after it or     *)
(* none is.                                                                *)
NoPartialGop ==
  ChainQueuedDone =>
    \A i \in 1..Len(ev.calls) :
       WholeGops(ev.calls[i].pre.queue, ev.calls[i].post.queue)

(* A drop call removed a GOP of two frames or more and kept later ones. *)
NoPartialGopWitness ==
  /\ ChainQueuedDone
  /\ \E i \in 1..Len(ev.calls) :
       /\ ev.calls[i].post.queue # << >>
       /\ \E g \in GopIds(ev.calls[i].pre.queue) :
            /\ Cardinality(FramesOf(ev.calls[i].pre.queue, g)) >= 2
            /\ FramesOf(ev.calls[i].pre.queue, g)
                  \cap QueuedIds(ev.calls[i].post.queue) = {}

(* C3: after every gst_prerec_locked_drop call that leaves the queue       *)
(* non-empty, the head of the queue is a keyframe.                         *)
HeadIsKeyframe ==
  ChainQueuedDone =>
    \A i \in 1..Len(ev.calls) :
       ev.calls[i].post.queue # << >> =>
         /\ GST_IS_BUFFER(Head(ev.calls[i].post.queue))
         /\ Head(ev.calls[i].post.queue).is_keyframe

(* A drop call shortened the queue, past a queued event, and left items. *)
HeadIsKeyframeWitness ==
  /\ ChainQueuedDone
  /\ \E i \in 1..Len(ev.calls) :
       /\ ev.calls[i].post.queue # << >>
       /\ ev.calls[i].post.stats.drops_events > ev.calls[i].pre.stats.drops_events
       /\ ev.calls[i].post.stats.drops_buffers > ev.calls[i].pre.stats.drops_buffers

(***************************************************************************)
(* Properties of the flush trigger and of rearm, checked under SpecFlush.  *)
(***************************************************************************)
SeqIds(q) == [i \in 1..Len(q) |-> q[i].id]

Ascending(seq) == \A i \in 1..(Len(seq) - 1) : seq[i] < seq[i + 1]

(* The pushes logged after the first `from' and up to the `to'-th, made   *)
(* for the reason `why'.                                                   *)
PushedFor(from, to, why) ==
  SelectSeq(SubSeq(out, from + 1, to), LAMBDA e : e.why = why)

(* C4: a flush trigger received while BUFFERING pushes every queued item   *)
(* (buffers and queued SEGMENT/GAP events) exactly once, in the order of   *)
(* their arrival (ids grow with arrival), leaves the queue empty, and only *)
(* then switches the mode to PASS_THROUGH.                                 *)
TriggerDrainsInOrder ==
  /\ ev.op = "trigger" =>
       /\ ev.pre.mode = BUFFERING
       /\ Len(PushedFor(ev.mark, ev.outlen, "trigger_drain")) = Len(ev.pre.queue)
       /\ QueuedIds(PushedFor(ev.mark, ev.outlen, "trigger_drain"))
            = QueuedIds(ev.pre.queue)
       /\ Ascending(SeqIds(PushedFor(ev.mark, ev.outlen, "trigger_drain")))
       /\ ev.post.queue = << >>
       /\ ev.post.mode = PASS_THROUGH
  /\ \A t \in Threads : pc[t] = "trigger_drain" => loop.mode = BUFFERING

(* A trigger drained a queue holding a buffer and, behind it, an event. *)
TriggerDrainsInOrderWitness ==
  /\ ev.op = "trigger"
  /\ Len(ev.pre.queue) >= 2
  /\ GST_IS_BUFFER(ev.pre.queue[1])
  /\ \E i \in 2..Len(ev.pre.queue) : GST_IS_EVENT(ev.pre.queue[i])

TriggerDrainPushes == SelectSeq(out, LAMBDA e : e.why = "trigger_drain")

(* C5: of two flush triggers delivered from different threads while        *)
(* BUFFERING, in every interleaving one drains alone under the lock and    *)
(* the other then finds PASS_THROUGH and does nothing: no item is pushed   *)
(* twice and flush_count grows by exactly one.                             *)
ConcurrentTriggersFlushOnce ==
  /\ ~(pc["stream"] = "trigger_drain" /\ pc["app"] = "trigger_drain")
  /\ \A i, j \in 1..Len(TriggerDrainPushes) :
        i # j => TriggerDrainPushes[i].id # TriggerDrainPushes[j].id
  /\ \A j \in 1..Len(gh.trig) :
        gh.trig[j].accepted
          = (\A i \in 1..(j - 1) : gh.trig[i].rearms # gh.trig[j].rearms)
  /\ loop.stats.flush_count
        = Cardinality({i \in 1..Len(gh.trig) : gh.trig[i].accepted})
  /\ ev.op = "trigger_ignored" => (ev.pre.mode = PASS_THROUGH /\ ev.post = ev.pre)

(* The second trigger arrived on the other thread while the first was      *)
(* draining, waited for the lock, and was ignored.                         *)
ConcurrentTriggersWitness ==
  /\ Len(gh.trig) = 2
  /\ gh.trig[1].by # gh.trig[2].by
  /\ gh.trig[2].waited_for = gh.trig[1].by
  /\ gh.trig[1].accepted /\ ~gh.trig[2].accepted
  /\ Len(TriggerDrainPushes) >= 2
  /\ loop.stats.flush_count = 1

(* C6: every call into the src pad (gst_pad_push, gst_pad_push_event) is   *)
(* made with the element's lock released, the pushes of a flush-trigger    *)
(* drain and of an EOS drain included.                                     *)
PushesUnlocked == \A i \in 1..Len(out) : ~out[i].locked

(* C7: a prerecord-arm received in PASS_THROUGH leaves an empty queue,     *)
(* zero queued GOPs, zero buffered time, both GOP ids at 0, both segments  *)
(* freshly initialised, rearm_count one higher, and the mode BUFFERING.    *)
RearmResets ==
  (ev.op = "rearm" /\ ev.pre.mode = PASS_THROUGH) =>
    /\ ev.post.queue = << >>
    /\ gst_prerec_queued_gops(ev.post) = 0
    /\ ev.post.cur_level = clear_level
    /\ ev.post.current_gop_id = 0 /\ ev.post.last_gop_id = 0
    /\ ev.post.sink_segment = gst_segment_init
    /\ ev.post.src_segment = gst_segment_init
    /\ ev.post.stats.rearm_count = ev.pre.stats.rearm_count + 1
    /\ ev.post.mode = BUFFERING

(* A rearm in PASS_THROUGH after GOPs were buffered, drained and followed  *)
(* by a passed-through frame.                                              *)
RearmResetsWitness ==
  /\ ev.op = "rearm" /\ ev.pre.mode = PASS_THROUGH
  /\ ev.pre.current_gop_id > 0
  /\ ev.pre.sink_segment # gst_segment_init
  /\ \E i \in 1..Len(out) : out[i].why = "pass"

(***************************************************************************)
(* Properties of EOS handling, checked under SpecEos.                      *)
(***************************************************************************)
DrainCombination(policy, mode) ==
  policy = ALWAYS \/ (policy = AUTO /\ mode = PASS_THROUGH)

ItemsPushed(from, to) ==
  SelectSeq(SubSeq(out, from + 1, to),
            LAMBDA e : e.kind \in {"buffer", "segment", "gap"})

(* C8: in each of the six policy x mode combinations, the number of items  *)
(* pushed between the receipt of EOS and the forwarding of EOS is the      *)
(* number of items queued before in the drain combinations (ALWAYS, and    *)
(* AUTO in PASS_THROUGH) and 0 in the discard combinations (NEVER, and     *)
(* AUTO in BUFFERING); the queue is empty afterwards in all six.           *)
EosPolicyTable ==
  ev.op = "eos" =>
    /\ Len(ItemsPushed(ev.mark, ev.outlen - 1))
         = IF DrainCombination(ev.policy, ev.mode) THEN Len(ev.pre.queue) ELSE 0
    /\ ev.post.queue = << >>

(* An EOS under ALWAYS while BUFFERING drained two items or more. *)
EosPolicyTableWitness ==
  /\ ev.op = "eos" /\ ev.policy = ALWAYS /\ ev.mode = BUFFERING
  /\ Len(ev.pre.queue) >= 2
  /\ Len(ItemsPushed(ev.mark, ev.outlen - 1)) >= 2

EosPushes == {i \in 1..Len(out) : out[i].kind = "eos"}

EosInProgress == pc["stream"] \in {"eos_drain", "eos_forward"}

(* C9: for every EOS received, under every policy and mode, the decision   *)
(* of the policy table is applied once (the queue is drained once, in      *)
(* order, or not at all) and the EOS is then pushed exactly once, after    *)
(* every item drained for it; no drained item is pushed after the EOS.     *)
EosForwardedOnceAfterDrain ==
  /\ Cardinality(EosPushes) = gh.eos_no - (IF EosInProgress THEN 1 ELSE 0)
  /\ \A i \in 1..Len(out) :
        out[i].why = "eos_drain" =>
          \/ \E j \in EosPushes : j > i
          \/ EosInProgress /\ i > pend["stream"].base.mark
  /\ ev.op = "eos" =>
       /\ out[ev.outlen].kind = "eos"
       /\ SeqIds(PushedFor(ev.mark, ev.outlen - 1, "eos_drain"))
            = IF DrainCombination(ev.policy, ev.mode) THEN SeqIds(ev.pre.queue)
                                                        ELSE << >>
       /\ PushedFor(ev.outlen, Len(out), "eos_drain") = << >>

(* An EOS drained a queue holding an event and was then forwarded. *)
EosForwardedWitness ==
  /\ ev.op = "eos" /\ ev.drain
  /\ \E i \in 1..Len(ev.pre.queue) : GST_IS_EVENT(ev.pre.queue[i])
  /\ out[ev.outlen].kind = "eos"

(* C10: once an EOS has been received, every further call of the chain     *)
(* function is refused with GST_FLOW_EOS, its buffer neither queued nor    *)
(* pushed.                                                                 *)
RefusedAfterEos ==
  (ev.op \in {"chain", "chain_refused"} /\ ev.after_eos)
    => (ev.op = "chain_refused" /\ ev.ret = FLOW_EOS)

(***************************************************************************)
(* Properties of the flush protocol, checked under SpecEos.                *)
(***************************************************************************)
UnrefdIds(l) == {l.unrefd[i] : i \in 1..Len(l.unrefd)}

PushedIds == {out[i].id : i \in {j \in 1..Len(out) : out[j].kind = "buffer"}}

(* C11: a frame submitted while the element is not accepting (after a      *)
(* flush-start and before the flush-stop that follows; the deactivation    *)
(* and activation of the src pad open and close the same condition) is     *)
(* refused with GST_FLOW_FLUSHING, its handle is released, it is never     *)
(* queued nor pushed, and the element is otherwise unchanged; a frame      *)
(* submitted while accepting is accepted with GST_FLOW_OK.                 *)
FlushingRefuses ==
  /\ ev.op \in {"chain", "chain_refused"} =>
       IF ev.accepting
       THEN ev.op = "chain" /\ ev.ret = FLOW_OK
       ELSE /\ ev.op = "chain_refused"
            /\ ev.ret = FLOW_FLUSHING
            /\ ev.post = [ev.pre EXCEPT !.unrefd = Append(@, ev.id)]
            /\ ev.outlen = ev.mark
  /\ \A id \in gh.refused :
        /\ id \notin QueuedIds(loop.queue)
        /\ id \notin PushedIds
        /\ id \in UnrefdIds(loop)

(* A frame was refused between a flush-start and its flush-stop, and a     *)
(* later frame, after the flush-stop, was queued.                          *)
FlushingRefusesWitness ==
  /\ ev.op = "chain" /\ ev.mode = BUFFERING
  /\ cnt.deact = 0 /\ cnt.flushseq > 0
  /\ \E id \in gh.refused : id < ev.id
  /\ ev.id \in QueuedIds(ev.post.queue)

(* C12: a flush-start, in either mode, releases every queued item and no   *)
(* drain pushes it afterwards (an event whose forwarding on arrival was    *)
(* still under way is forwarded, its queued copy is not); the queue is     *)
(* left empty, the level at zero, both GOP ids at 0 and the queued-stats   *)
(* at 0; whatever a later flush trigger drains arrived after that          *)
(* flush-start, and the frames it drains arrived after the element began   *)
(* accepting again.                                                        *)
FlushStartDiscards ==
  /\ ev.op = "flush_start" =>
       /\ ev.post.queue = << >>
       /\ ev.post.cur_level.buffers = 0 /\ ev.post.cur_level.time = 0
       /\ ev.post.current_gop_id = 0 /\ ev.post.last_gop_id = 0
       /\ ev.post.stats.queued_gops_cur = 0 /\ ev.post.stats.queued_buffers_cur = 0
       /\ ev.post.mode = ev.pre.mode
       /\ QueuedIds(ev.pre.queue) \subseteq UnrefdIds(ev.post)
       /\ out[ev.outlen].kind = "flush_start"
       /\ \A i \in (ev.mark + 1)..Len(out) :
             out[i].why # "default" => out[i].id \notin QueuedIds(ev.pre.queue)
  /\ ev.op = "trigger" =>
       \A i \in (ev.mark + 1)..ev.outlen :
          out[i].why = "trigger_drain" =>
            /\ out[i].id >= ev.flush_mark
            /\ out[i].kind = "buffer" => out[i].id >= ev.accept_mark

(* Frames queued before a flush-start were released by it, and a trigger   *)
(* after the flush-stop drained a frame that arrived later.                *)
FlushStartDiscardsWitness ==
  /\ ev.op = "trigger"
  /\ cnt.deact = 0 /\ cnt.eos = 0
  /\ ev.accept_mark > 1
  /\ \E i \in 1..Len(ev.pre.unrefd) :
        ev.pre.unrefd[i] < ev.flush_mark /\ ev.pre.unrefd[i] \notin gh.refused
  /\ \E i \in (ev.mark + 1)..ev.outlen : out[i].kind = "buffer"

PushesOf(id) == {i \in 1..Len(out) : out[i].id = id}

(* C14: every SEGMENT or GAP event is pushed by the next step of the       *)
(* streaming thread in both modes, and is appended to the queue exactly    *)
(* when the mode is BUFFERING; an event that arrived in PASS_THROUGH       *)
(* leaves the element unchanged, is never in the queue, and is pushed once *)
(* only, never by a drain, whatever rearms and triggers follow.            *)
EventsForwardedOnArrival ==
  /\ ev.op = "event" =>
       /\ out[ev.outlen].id = ev.id /\ out[ev.outlen].why = "default"
       /\ \A i \in (ev.mark + 1)..(ev.outlen - 1) : out[i].by # "stream"
       /\ (ev.id \in QueuedIds(ev.post.queue)) = (ev.mode = BUFFERING)
       /\ ev.mode = PASS_THROUGH => ev.post = ev.pre
       /\ ev.mode = BUFFERING => ev.post.queue[Len(ev.post.queue)].id = ev.id
  /\ \A id \in gh.pt_events :
        /\ id \notin QueuedIds(loop.queue)
        /\ Cardinality(PushesOf(id)) <= 1
        /\ \A i \in PushesOf(id) : out[i].why = "default"

(* An event arrived in PASS_THROUGH and was forwarded; a rearm and a       *)
(* second trigger followed.                                                *)
EventsForwardedOnArrivalWitness ==
  /\ ev.op = "trigger" /\ ev.pre.stats.rearm_count > 0
  /\ \E id \in gh.pt_events : PushesOf(id) # {}

(* C15: a flush trigger that finds the mode PASS_THROUGH pushes nothing,   *)
(* does not count in flush_count, and leaves the queue, the level, the GOP *)
(* ids and the mode as they were.                                          *)
TriggerIgnoredInPassThrough ==
  (ev.op \in {"trigger", "trigger_ignored"} /\ ev.pre.mode = PASS_THROUGH) =>
    /\ ev.op = "trigger_ignored"
    /\ ev.outlen = ev.mark
    /\ ev.post.stats.flush_count = ev.pre.stats.flush_count
    /\ ev.post.queue = ev.pre.queue
    /\ ev.post.cur_level = ev.pre.cur_level
    /\ ev.post.current_gop_id = ev.pre.current_gop_id
    /\ ev.post.last_gop_id = ev.pre.last_gop_id
    /\ ev.post.mode = PASS_THROUGH

(* A trigger was ignored after an earlier one had drained frames. *)
TriggerIgnoredWitness ==
  /\ ev.op = "trigger_ignored"
  /\ ev.pre.stats.flush_count = 1
  /\ \E i \in 1..ev.mark : out[i].why = "trigger_drain" /\ out[i].kind = "buffer"

HeadAlwaysKeyframe ==
  (lock = NoThread /\ loop.queue # << >>) =>
    /\ GST_IS_BUFFER(Head(loop.queue))
    /\ Head(loop.queue).is_keyframe

(* C18: whenever no handler is running, a level of zero buffers has zero   *)
(* buffered time.                                                          *)
EmptyLevelHasNoTime ==
  (lock = NoThread /\ loop.cur_level.buffers = 0) => loop.cur_level.time = 0

QueuedFrames(q) == SelectSeq(q, GST_IS_BUFFER)

(* C19: whenever no handler is running, the GOP ids of the queued frames   *)
(* never decrease from head to tail, and when a frame is queued the number *)
(* of distinct GOP ids among the queued frames is the newest id minus the  *)
(* oldest plus one, which is also what gst_prerec_queued_gops returns.     *)
GopIdsMonotone ==
  \A i, j \in 1..Len(QueuedFrames(loop.queue)) :
     i < j => QueuedFrames(loop.queue)[i].gop_id <= QueuedFrames(loop.queue)[j].gop_id

GopCountIsSpan ==
  QueuedFrames(loop.queue) # << >> =>
    Cardinality(GopIds(loop.queue))
      = QueuedFrames(loop.queue)[Len(QueuedFrames(loop.queue))].gop_id
          - QueuedFrames(loop.queue)[1].gop_id + 1

GopCountIsReported ==
  QueuedFrames(loop.queue) # << >> =>
    Cardinality(GopIds(loop.queue)) = gst_prerec_queued_gops(loop)

GopAccounting ==
  lock = NoThread => (GopIdsMonotone /\ GopCountIsSpan /\ GopCountIsReported)

(* A prune evicted the oldest GOP and left two GOPs or more queued, the    *)
(* oldest of them not the first GOP of the stream.                         *)
GopAccountingWitness ==
  /\ lock = NoThread
  /\ ev.op = "chain" /\ Len(ev.calls) >= 1 /\ loop = ev.post
  /\ Cardinality(GopIds(loop.queue)) >= 2
  /\ QueuedFrames(loop.queue)[1].gop_id >= 2
  /\ loop.stats.drops_gops >= 1

(***************************************************************************)
(* The stats snapshot, checked under SpecFlush.                            *)
(***************************************************************************)
(* C20: whenever no handler holds the lock, stats.queued_buffers_cur is    *)
(* the number of buffers in the queue and stats.queued_gops_cur is what    *)
(* gst_prerec_queued_gops returns; both are 0 after a flush trigger has    *)
(* drained the queue and after a rearm.                                    *)
StatsMatchQueue ==
  lock = NoThread =>
    /\ loop.stats.queued_buffers_cur = Len(QueuedFrames(loop.queue))
    /\ loop.stats.queued_gops_cur = gst_prerec_queued_gops(loop)

TriggersInBuffering == Cardinality({i \in 1..Len(gh.trig) : gh.trig[i].accepted})

RemovedBy(call) == QueuedIds(call.pre.queue) \ QueuedIds(call.post.queue)

KindCount(q, ids, buffers) ==
  Cardinality({i \in 1..Len(q) : q[i].id \in ids /\ GST_IS_BUFFER(q[i]) = buffers})

(* C22: every gst_prerec_locked_drop call adds exactly 1 to drops_gops,    *)
(* the number of buffers it removed to drops_buffers and the number of     *)
(* events it removed to drops_events, and leaves the queued snapshot equal *)
(* to the queue's buffer count and GOP count.                              *)
DropCountsEveryItem ==
  ChainQueuedDone =>
    \A i \in 1..Len(ev.calls) :
       /\ ev.calls[i].post.stats.drops_gops = ev.calls[i].pre.stats.drops_gops + 1
       /\ ev.calls[i].post.stats.drops_buffers
            = ev.calls[i].pre.stats.drops_buffers
                + KindCount(ev.calls[i].pre.queue, RemovedBy(ev.calls[i]), TRUE)
       /\ ev.calls[i].post.stats.drops_events
            = ev.calls[i].pre.stats.drops_events
                + KindCount(ev.calls[i].pre.queue, RemovedBy(ev.calls[i]), FALSE)
       /\ ev.calls[i].post.stats.queued_buffers_cur = ev.calls[i].post.cur_level.buffers
       /\ ev.calls[i].post.stats.queued_gops_cur
            = gst_prerec_queued_gops(ev.calls[i].post)

(* C23: a frame arrival that leaves at most two GOPs queued evicts         *)
(* nothing, however far the buffered time exceeds max-time: no drop call   *)
(* is made, the queue is as the enqueue left it and the drop counters are  *)
(* unchanged.                                                              *)
NoEvictionAtFloor ==
  (ChainQueuedDone /\ Cardinality(GopIds(ev.enq.queue)) <= GOP_FLOOR) =>
    /\ ev.calls = << >>
    /\ ev.post.queue = ev.enq.queue
    /\ ev.post.stats.drops_gops = ev.pre.stats.drops_gops
    /\ ev.post.stats.drops_buffers = ev.pre.stats.drops_buffers
    /\ ev.post.stats.drops_events = ev.pre.stats.drops_events

(* A single GOP of three frames or more, buffered past a positive          *)
(* max-time, was kept whole.                                               *)
NoEvictionAtFloorWitness ==
  /\ ChainQueuedDone
  /\ ev.pre.max_time > 0
  /\ ev.post.cur_level.time > ev.pre.max_time
  /\ Cardinality(GopIds(ev.post.queue)) = 1
  /\ Len(QueuedFrames(ev.post.queue)) >= 3
  /\ ev.calls = << >>

(* The items that leave the queue in a step. *)
LeavingQueue == QueuedIds(loop.queue) \ QueuedIds(loop'.queue)

(* The step belongs to a drain, a discard or a reset. *)
DrainDiscardOrReset ==
  \/ \E t \in Threads : pc[t] \in {"trigger_drain", "eos_drain"}
  \/ cnt'.eos = cnt.eos + 1
  \/ cnt'.flushseq = cnt.flushseq + 1
  \/ cnt'.deact = cnt.deact + 1

(* C24: with max-time 0, which is also what a negative setting is clamped  *)
(* to, no frame arrival evicts anything: no drop call is made, the three   *)
(* drop counters stay at 0, and an item leaves the queue only in a step of *)
(* a drain, a discard or a reset.                                          *)
NoEvictionWhenUnlimited ==
  /\ [](/\ gh.max_time_set <= 0 => loop.max_time = 0
        /\ loop.max_time = 0 =>
             /\ loop.stats.drops_gops = 0
             /\ loop.stats.drops_buffers = 0
             /\ loop.stats.drops_events = 0
             /\ ChainQueuedDone => (ev.calls = << >> /\ ev.post.queue = ev.enq.queue))
  /\ [][(loop.max_time = 0 /\ LeavingQueue # {}) => DrainDiscardOrReset]_vars

(* With a negative max-time set, four GOPs and four seconds are buffered.  *)
NoEvictionWhenUnlimitedWitness ==
  /\ gh.max_time_set < 0
  /\ ChainQueuedDone /\ loop = ev.post
  /\ Cardinality(GopIds(loop.queue)) >= 4
  /\ loop.cur_level.time >= 4

(***************************************************************************)
(* Further properties of EOS handling, checked under SpecEos.              *)
(***************************************************************************)
(* C25: an EOS whose policy drains the queue leaves the element in         *)
(* PASS_THROUGH.                                                           *)
EosDrainEntersPassThrough ==
  (ev.op = "eos" /\ DrainCombination(ev.policy, ev.mode)) =>
    ev.post.mode = PASS_THROUGH

(* C26: when the handling of an EOS has finished, under every policy and   *)
(* in either mode, both GOP ids are 0 and the stats snapshot reports no    *)
(* queued GOP and no queued buffer.                                        *)
EosResetsGopCounters ==
  ev.op = "eos" =>
    /\ ev.post.current_gop_id = 0 /\ ev.post.last_gop_id = 0
    /\ ev.post.stats.queued_gops_cur = 0
    /\ ev.post.stats.queued_buffers_cur = 0

(***************************************************************************)
(* Ownership of the queued handles, checked under SpecOwn.                 *)
(***************************************************************************)
(* The pushes of a drain that forward the queue's reference of a handle    *)
(* (the forward of an event on arrival uses the caller's reference).       *)
DrainPushesOf(o, id) ==
  {i \in 1..Len(o) : o[i].id = id /\ o[i].why \in {"trigger_drain", "eos_drain"}}

ReleasesOf(unrefd, id) == {i \in 1..Len(unrefd) : unrefd[i] = id}

Disposals(l, o, id) ==
  Cardinality(DrainPushesOf(o, id)) + Cardinality(ReleasesOf(l.unrefd, id))

QueueSlotsOf(q, id) == {i \in 1..Len(q) : q[i].id = id}

(* C27: a handle is never disposed of twice, nor both forwarded and        *)
(* released; while it is queued it is queued once and not disposed of; a   *)
(* frame that its own arrival evicts is released once; and every step that *)
(* takes a handle out of the queue forwards it once or releases it once.   *)
HandlesDisposedOnce ==
  /\ [](/\ \A id \in 1..(nextId - 1) :
             /\ Disposals(loop, out, id) <= 1
             /\ QueueSlotsOf(loop.queue, id) # {} =>
                  /\ Cardinality(QueueSlotsOf(loop.queue, id)) = 1
                  /\ Disposals(loop, out, id) = 0
        /\ (ChainQueuedDone /\ ev.id \notin QueuedIds(ev.post.queue)) =>
             Cardinality(ReleasesOf(ev.post.unrefd, ev.id)) = 1)
  /\ [][\A id \in LeavingQueue : Disposals(loop', out', id) = 1]_vars

(* One handle was evicted and released, and the handles still queued were *)
(* then forwarded by a drain, none of them released.                       *)
HandlesDisposedOnceWitness ==
  /\ ev.op \in {"trigger", "eos"}
  /\ ev.pre.stats.drops_gops > 0
  /\ \E id \in UnrefdIds(ev.pre) : id \notin gh.refused /\ DrainPushesOf(out, id) = {}
  /\ QueuedIds(ev.pre.queue) # {}
  /\ \A id \in QueuedIds(ev.pre.queue) :
        Cardinality(DrainPushesOf(out, id)) = 1 /\ id \notin UnrefdIds(loop)

(***************************************************************************)
(* Gap events and the buffered time, checked under SpecPrune.              *)
(***************************************************************************)
(* The queue holds only frames and gaps, all with a timestamp. *)
AllTimed(q) ==
  \A i \in 1..Len(q) :
     q[i].kind \in {"buffer", "gap"} /\ GST_CLOCK_TIME_IS_VALID(q[i].ts)

(* The last arrival was a frame or an event taken in BUFFERING mode, and   *)
(* nothing has been released so far: the queue holds the whole stream.     *)
ArrivalKeptAll ==
  /\ ev.op \in {"chain", "event"} /\ ev.mode = BUFFERING
  /\ ev.post.unrefd = << >>
  /\ ev.post.queue # << >>
  /\ AllTimed(ev.post.queue)

(* C28: a gap received in BUFFERING mode counts as buffered time: as long  *)
(* as nothing has left the queue, the buffered time after every arrival is *)
(* the span from the first queued timestamp to the end of the last queued  *)
(* item, gaps included (frames over 0-2 s, a gap over 2-4 s and frames     *)
(* over 4-6 s buffer 6 seconds).                                           *)
GapAdvancesBufferedTime ==
  ArrivalKeptAll =>
    ev.post.cur_level.time =
      ev.post.queue[Len(ev.post.queue)].ts + ev.post.queue[Len(ev.post.queue)].dur
        - ev.post.queue[1].ts

(* Frames at 0 s and 1 s, one gap from 2 s to 4 s, frames at 4 s and 5 s:  *)
(* 6 seconds are buffered.                                                 *)
GapAdvancesBufferedTimeWitness ==
  /\ ArrivalKeptAll /\ ev.op = "chain" /\ loop = ev.post
  /\ Len(loop.queue) = 5
  /\ [i \in 1..5 |-> loop.queue[i].kind] = <<"buffer", "buffer", "gap", "buffer", "buffer">>
  /\ [i \in 1..5 |-> loop.queue[i].ts] = <<0, 1, 2, 4, 5>>
  /\ loop.queue[3].dur = 2
  /\ loop.cur_level.time = 6

(***************************************************************************)
(* The prune loop's exit, checked under SpecPrune.                         *)
(***************************************************************************)
(* C29: when a frame arrival in BUFFERING mode has finished, the prune     *)
(* test is false: it is not the case that max-time is positive, the        *)
(* buffered time has reached it and more than two GOPs are queued.         *)
(* The frames pushed so far, as the enqueue left them, form GOPs that      *)
(* start with a keyframe and carry timestamps, with no event among them.   *)
WellFormedGops(q) ==
  /\ q # << >>
  /\ \A i \in 1..Len(q) : GST_IS_BUFFER(q[i]) /\ GST_CLOCK_TIME_IS_VALID(q[i].ts)
  /\ q[1].is_keyframe

PruneSettles ==
  ChainQueuedDone =>
    /\ ~(/\ ev.post.max_time > 0
          /\ ev.post.cur_level.time >= ev.post.max_time
          /\ gst_prerec_queued_gops(ev.post) > GOP_FLOOR)
    /\ (WellFormedGops(ev.enq.queue) /\ ev.calls # << >>) =>
         /\ gst_prerec_queued_gops(ev.post) >= GOP_FLOOR
         /\ ev.post.stats.drops_gops >= 1

(* Four one-frame GOPs with timestamps were pushed against a limit of 2 s: *)
(* the last arrival pruned, at least 2 GOPs stay and at least 1 is gone.   *)
PruneSettlesWitness ==
  /\ ChainQueuedDone /\ loop = ev.post
  /\ loop.max_time = 2
  /\ cnt.frames = 4 /\ cnt.events = 0 /\ gh.refused = {}
  /\ WellFormedGops(ev.enq.queue)
  /\ \A i \in 1..Len(loop.queue) : loop.queue[i].is_keyframe
  /\ ev.calls # << >>
  /\ gst_prerec_queued_gops(loop) >= 2
  /\ loop.stats.drops_gops >= 1

(***************************************************************************)
(* Re-entry from downstream during a drain, checked under SpecRe.          *)
(***************************************************************************)
(* C30: a thread that is draining never waits for the element's lock while *)
(* it holds that lock itself: an upstream event raised from inside a       *)
(* drain's push is handled and the drain goes on.                          *)
DrainSurvivesReentry ==
  \A t \in Threads : ~(pc[t] = "src_event_blocked" /\ lock = t)

(***************************************************************************)
(* Live frames against drained items, checked under SpecFlush.             *)
(***************************************************************************)
(* The frames handed downstream by the chain function or by a trigger's    *)
(* drain, in the order of the calls.                                       *)
FramesOut ==
  SelectSeq(out, LAMBDA e : e.kind = "buffer" /\ e.why \in {"pass", "trigger_drain"})

(* C31: a frame that arrives while a flush trigger is being handled is     *)
(* either queued ahead of the drain and pushed in its queue position, or   *)
(* pushed after the drain's last item: no item drained after a live frame  *)
(* is older than that frame, and the frames leave in the order of their    *)
(* arrival (ids and timestamps grow with arrival).                         *)
LiveFrameAfterDrain ==
  /\ \A i \in 1..Len(out) : \A j \in (i + 1)..Len(out) :
        (out[i].why = "pass" /\ out[j].why = "trigger_drain") => out[j].id > out[i].id
  /\ Ascending(SeqIds(FramesOut))

(* The application thread's trigger drained two frames, and a frame the    *)
(* streaming thread delivered next was pushed after them.                  *)
LiveFrameAfterDrainWitness ==
  /\ Len(FramesOut) >= 3
  /\ \E i \in 1..(Len(FramesOut) - 2) :
        /\ FramesOut[i].why = "trigger_drain" /\ FramesOut[i].by = "app"
        /\ FramesOut[i + 1].why = "trigger_drain" /\ FramesOut[i + 1].by = "app"
        /\ FramesOut[i + 2].why = "pass"

(***************************************************************************)
(* The mode of the element, checked under SpecOwn.                         *)
(***************************************************************************)
(* C32: whenever the mode is PASS_THROUGH the queue is empty and the level *)
(* counts no buffer.                                                       *)
PassThroughQueueEmpty ==
  loop.mode = PASS_THROUGH => (loop.queue = << >> /\ loop.cur_level.buffers = 0)

(* In PASS_THROUGH, reached by a trigger that drained a frame and an       *)
(* event, a frame and an event have since arrived and been forwarded.      *)
PassThroughQueueEmptyWitness ==
  /\ loop.mode = PASS_THROUGH
  /\ \E i \in 1..Len(out) : out[i].why = "trigger_drain" /\ out[i].kind = "buffer"
  /\ \E i \in 1..Len(out) : out[i].why = "pass"
  /\ gh.pt_events # {}
  /\ ev.op = "event" /\ ev.mode = PASS_THROUGH

(* The step is the end of a trigger's drain, taken while BUFFERING. *)
TriggerSwitchStep ==
  /\ \E t \in Threads : pc[t] = "trigger_drain" /\ pc'[t] = "idle"
  /\ loop.mode = BUFFERING /\ loop'.mode = PASS_THROUGH

(* The step is a rearm taken while in PASS_THROUGH. *)
RearmSwitchStep ==
  /\ cnt'.rearm = cnt.rearm + 1
  /\ loop.mode = PASS_THROUGH /\ loop'.mode = BUFFERING

IsTailOf(q, p) ==
  Len(q) <= Len(p) /\ q = SubSeq(p, Len(p) - Len(q) + 1, Len(p))

(* The drop calls of one arrival follow one another from the enqueue. *)
CallsChained(calls, enq) ==
  \A k \in 1..Len(calls) :
     calls[k].pre = (IF k = 1 THEN enq ELSE calls[k - 1].post)

(* C34: the processing of a frame that arrives in BUFFERING mode ends, for *)
(* every queue (head not a keyframe, GOP ids that do not match, leading    *)
(* events): each drop call takes at least one and at most all items from   *)
(* the head of the queue, every call but the last lowers the GOP count and *)
(* leaves it above 2, the loop ends only when the count has stopped        *)
(* falling, has reached the floor or the prune test is false, and there    *)
(* are fewer calls than GOPs were queued.                                  *)
PruneLoopTerminates ==
  ChainQueuedDone =>
    /\ CallsChained(ev.calls, ev.enq)
    /\ \A k \in 1..Len(ev.calls) :
          /\ gst_prerec_should_prune(ev.calls[k].pre)
          /\ IsTailOf(ev.calls[k].post.queue, ev.calls[k].pre.queue)
          /\ Len(ev.calls[k].post.queue) < Len(ev.calls[k].pre.queue)
          /\ k < Len(ev.calls) =>
               /\ gst_prerec_queued_gops(ev.calls[k].post)
                    < gst_prerec_queued_gops(ev.calls[k].pre)
               /\ gst_prerec_queued_gops(ev.calls[k].post) > GOP_FLOOR
          /\ k = Len(ev.calls) =>
               \/ gst_prerec_queued_gops(ev.calls[k].post) <= GOP_FLOOR
               \/ gst_prerec_queued_gops(ev.calls[k].post)
                    >= gst_prerec_queued_gops(ev.calls[k].pre)
               \/ ~gst_prerec_should_prune(ev.calls[k].post)
    /\ ev.calls # << >> => Len(ev.calls) < gst_prerec_queued_gops(ev.enq)

(* An arrival pruned twice a queue whose head was not a keyframe. *)
PruneLoopTerminatesWitness ==
  /\ ChainQueuedDone
  /\ Len(ev.calls) >= 2
  /\ ~(GST_IS_BUFFER(ev.enq.queue[1]) /\ ev.enq.queue[1].is_keyframe)

(***************************************************************************)
(* The duplicate-segment flag, checked under SpecSeg.                      *)
(***************************************************************************)
(* The step is a drain's dequeue of a SEGMENT event that the dequeue does  *)
(* not apply to the src side, because newseg_applied_to_src is set.        *)
SegmentSkipStep ==
  /\ \E t \in Threads : pc[t] \in {"trigger_drain", "eos_drain"}
  /\ loop.queue # << >>
  /\ Head(loop.queue).kind = "segment"
  /\ loop.newseg_applied_to_src
  /\ loop'.queue = Tail(loop.queue)

(* C35: a dequeued SEGMENT event is skipped only if it is the event that   *)
(* was applied to the src side when it was enqueued into the empty queue.  *)
SegmentSkippedOnlyIfFastPathed ==
  [][SegmentSkipStep => gh.fast_seg = Head(loop.queue).id]_vars

(***************************************************************************)
(* Events and the level, checked under SpecPrune.                          *)
(***************************************************************************)
(* C36: a SEGMENT or GAP event enqueued in BUFFERING mode leaves the level *)
(* as it was: the same buffers, bytes and time.                            *)
EventKeepsLevel ==
  (ev.op = "event" /\ ev.mode = BUFFERING) =>
    /\ ev.post.cur_level.buffers = ev.pre.cur_level.buffers
    /\ ev.post.cur_level.bytes = ev.pre.cur_level.bytes
    /\ ev.post.cur_level.time = ev.pre.cur_level.time

(* C37: a SEGMENT event applied to the sink side in BUFFERING mode marks   *)
(* that side for recomputation, and applied to the src side by the fast    *)
(* path it marks the src side too, so that the next computation of the     *)
(* buffered time takes the side's running time from the new segment.       *)
SegmentMarksRecompute ==
  (ev.op = "event" /\ ev.kind = "segment" /\ ev.mode = BUFFERING) =>
    /\ ev.post.sink_tainted
    /\ ev.pre.queue = << >> => ev.post.src_tainted

(***************************************************************************)
(* The buffered time as a function of the two running times and the start  *)
(* time, checked under SpecLevel.                                          *)
(***************************************************************************)
(* C38: update_time_level stores sink minus src when both running times   *)
(* are valid and sink >= src, sink minus start time when src is invalid,   *)
(* sink and the start time are valid and sink >= start time, and 0 in      *)
(* every other case; the stored time is never negative.  The running times *)
(* are the ones the function compares: those of a side that is not tainted *)
(* are the stored ones.                                                    *)
LevelTimeCases ==
  ev.op = "update_time_level" =>
    /\ ~ev.pre.sink_tainted => ev.post.sinktime = ev.pre.sinktime
    /\ ~ev.pre.src_tainted => ev.post.srctime = ev.pre.srctime
    /\ ev.post.sink_start_time = ev.pre.sink_start_time
    /\ ev.post.cur_level.time =
         (IF /\ GST_CLOCK_STIME_IS_VALID(ev.post.sinktime)
             /\ GST_CLOCK_STIME_IS_VALID(ev.post.srctime)
             /\ ev.post.sinktime >= ev.post.srctime
          THEN ev.post.sinktime - ev.post.srctime
          ELSE IF /\ GST_CLOCK_STIME_IS_VALID(ev.post.sinktime)
                  /\ ~GST_CLOCK_STIME_IS_VALID(ev.post.srctime)
                  /\ GST_CLOCK_STIME_IS_VALID(ev.pre.sink_start_time)
                  /\ ev.post.sinktime >= ev.pre.sink_start_time
               THEN ev.post.sinktime - ev.pre.sink_start_time
               ELSE 0)
    /\ ev.post.cur_level.time >= 0

(* The src time is valid and later than the sink time, with a start time   *)
(* that is earlier: the level is 0, not the distance from the start time.  *)
LevelTimeCasesWitness ==
  /\ ev.op = "update_time_level"
  /\ ~ev.pre.sink_tainted /\ ~ev.pre.src_tainted
  /\ ev.pre.sinktime = 1 /\ ev.pre.srctime = 2 /\ ev.pre.sink_start_time = 0
  /\ loop.cur_level.time = 0

(***************************************************************************)
(* The two clears, checked under SpecEos: the deactivation of the src pad  *)
(* clears partially; FLUSH_START and an EOS that discards a non-empty      *)
(* queue clear fully.                                                      *)
(***************************************************************************)
PartialClearStep == cnt'.deact = cnt.deact + 1

FullClearStep ==
  \/ cnt'.flushseq = cnt.flushseq + 1
  \/ cnt'.eos = cnt.eos + 1 /\ ~ShouldDrain(loop) /\ loop.queue # << >>

(* C39: the clear of a src pad deactivation removes every queued item and  *)
(* zeroes the level and leaves both segments, the start time and the mode  *)
(* as they were; a full clear also resets both segments, both running      *)
(* times and the start time.                                               *)
PartialClearKeepsTimeline ==
  [][/\ PartialClearStep =>
          /\ loop'.queue = << >>
          /\ loop'.cur_level = clear_level
          /\ loop'.sink_segment = loop.sink_segment
          /\ loop'.src_segment = loop.src_segment
          /\ loop'.sink_start_time = loop.sink_start_time
          /\ loop'.mode = loop.mode
     /\ FullClearStep =>
          /\ loop'.queue = << >>
          /\ loop'.cur_level = clear_level
          /\ loop'.sink_segment = gst_segment_init
          /\ loop'.src_segment = gst_segment_init
          /\ loop'.sinktime = GST_CLOCK_STIME_NONE
          /\ loop'.srctime = GST_CLOCK_STIME_NONE
          /\ loop'.sink_start_time = GST_CLOCK_STIME_NONE]_vars

(* A deactivation with frames queued, a level above zero, a sink segment   *)
(* that has advanced and a start time: afterwards the queue is empty and   *)
(* the segment and the start time are the ones from before.                *)
PartialClearKeepsTimelineWitness ==
  /\ ev.op = "src_activate" /\ ~ev.active
  /\ ev.pre.queue # << >>
  /\ ev.pre.cur_level.time > 0
  /\ ev.pre.sink_segment # gst_segment_init
  /\ GST_CLOCK_STIME_IS_VALID(ev.pre.sink_start_time)
  /\ loop.queue = << >>
  /\ loop.cur_level = clear_level
  /\ loop.sink_segment = ev.pre.sink_segment
  /\ loop.sink_start_time = ev.pre.sink_start_time
  /\ loop.mode = ev.pre.mode

====
